---- MODULE Spec2Model ----
(***************************************************************************)
(* Capture-to-analysis bridge.                                             *)
(*                                                                         *)
(*   - the Analysis Orchestrator: src/pages/api/reconstruct.ts (parseForm, *)
(*     handler and the stdout/stderr/close callbacks of the child process) *)
(*   - the Capture Client: the Home component (startCamera, snapshotBlob,  *)
(*     analyze, captureAndAnalyze, onFileInput, the unmount cleanup).      *)
(*                                                                         *)
(* Text is a sequence of characters, a Buffer a sequence of bytes; both    *)
(* are sequences of short strings here.                                    *)
(***************************************************************************)
EXTENDS Integers, Sequences, FiniteSets

\* ------------------------------------------------------------------ bounds
\* Number of requests the orchestrator receives.
NumJobs == 2
\* Largest number of bytes one 'data' event carries.
MaxChunk == 2
\* Number of startCamera calls of a session.
MaxStarts == 2
\* Number of captures and file selections of a session.
MaxAttempts == 2

Jobs == 1..NumJobs

\* -------------------------------------------------------------- orchestrator
VARIABLES
    pc,          \* per request: "idle", "parsing", "collecting", "finished"
    reqMethod,   \* per request: req.method
    reqUpload,   \* per request: what the multipart body holds
    filepath,    \* per request: file.filepath of the parsed upload, 0 before
    tmpFiles,    \* the temporary files present on disk
    nextPath,    \* formidable's next unique file name
    spawns,      \* per request: number of spawn() calls made
    childState,  \* per request: "none", "failed", "running", "closed"
    childOut,    \* per request: bytes the child wrote to stdout, not yet read
    childErr,    \* per request: bytes the child wrote to stderr, not yet read
    childCode,   \* per request: the child's exit code (Null when signalled)
    sentOut,     \* per request: the stdout chunks delivered so far
    sentErr,     \* per request: the stderr chunks delivered so far
    out,         \* per request: let out
    err,         \* per request: let err
    responses,   \* per request: the responses sent through res, in order
    crashed      \* the process died of an uncaught exception

serverVars == <<pc, reqMethod, reqUpload, filepath, tmpFiles, nextPath, spawns,
                childState, childOut, childErr, childCode, sentOut, sentErr,
                out, err, responses, crashed>>

\* The capture client's state.
VARIABLES
    mounted,     \* the Home component is mounted
    videoRef,    \* videoRef.current is the video element (not null)
    canvasRef,   \* canvasRef.current is the canvas element (not null)
    srcObject,   \* the video element's srcObject: a stream, 0 when null
    tracks,      \* per acquired stream, in order: "live" or "ended"
    streaming,   \* useState streaming
    busy,        \* useState busy
    resultImg,   \* useState resultImg, NoImage when null
    error,       \* useState error, NoError when null
    starts,      \* the startCamera calls, in order: where each one stands
    attempts,    \* the captures and file selections: where each one stands
    resultOf,    \* the attempt whose response set resultImg, 0 when none
    errorOf,     \* the attempt whose failure set error, 0 when none
    latest       \* the attempt that entered analyze last, 0 when none

clientVars == <<mounted, videoRef, canvasRef, srcObject, tracks, streaming,
                busy, resultImg, error, starts, attempts, resultOf, errorOf,
                latest>>

\* The exit code 'close' reports for a child that a signal killed (null).
Null == -1

Methods == {"POST", "GET"}

\* What a multipart body can hold: an `image` file, some other field only,
\* or a body formidable fails on (with or without an error message).
Uploads == {"image", "noimage", "malformed", "malformedNoMsg"}

\* Bytes a child writes. E1 E2 are the two bytes of one two-byte character.
Bytes == {"{", "}", "r", "a", ",", "q", "x", "E1", "E2"}

StdoutSamples ==
    { <<>>,
      <<"{", "}">>,
      <<"{", "r", "}">>,
      <<"{", "a", "}">>,
      <<"{", "r">>,
      <<"q", "E1", "E2", "q">>,
      <<"x">> }

StderrSamples == { <<>>, <<"x">>, <<"E1", "E2">> }

\* The engine outputs of the requests handled concurrently.
ConcurrentStdout == { <<"{", "}">>, <<"x">> }

ConcurrentStderr == { <<>>, <<"x">> }

ExitCodes == {0, 1, Null}

\* d.toString(): UTF-8 decoding of one chunk. A two-byte character decodes
\* to E when both bytes are in the chunk, and each byte of a character cut by
\* the chunk boundary decodes to the replacement character U.
RECURSIVE toString(_)
toString(d) ==
    IF d = <<>> THEN <<>>
    ELSE IF Len(d) >= 2 /\ d[1] = "E1" /\ d[2] = "E2"
         THEN <<"E">> \o toString(SubSeq(d, 3, Len(d)))
    ELSE IF d[1] \in {"E1", "E2"}
         THEN <<"U">> \o toString(Tail(d))
    ELSE <<d[1]>> \o toString(Tail(d))

\* The text a buffer accumulates from a sequence of chunks: out += d.toString().
RECURSIVE Accumulate(_)
Accumulate(chunks) ==
    IF chunks = <<>> THEN <<>>
    ELSE toString(Head(chunks)) \o Accumulate(Tail(chunks))

\* JSON.parse on the texts of this alphabet. A text is an object
\* { m , m ... } whose members m are r ("reconstructed_base64":"...") or
\* a ("analysis":{...}), or a string literal q chars q. Anything else throws.
IsObjectText(s) ==
    /\ Len(s) >= 2
    /\ s[1] = "{"
    /\ s[Len(s)] = "}"
    /\ \/ Len(s) = 2
       \/ /\ Len(s) % 2 = 1
          /\ \A i \in 2..(Len(s) - 1) :
                IF i % 2 = 0 THEN s[i] \in {"r", "a"} ELSE s[i] = ","

IsStringText(s) ==
    /\ Len(s) >= 2
    /\ s[1] = "q"
    /\ s[Len(s)] = "q"
    /\ \A i \in 2..(Len(s) - 1) : s[i] \in {"x", "E", "U"}

JSONValid(s) == IsObjectText(s) \/ IsStringText(s)

JSONParse(s) ==
    IF IsObjectText(s)
    THEN [type |-> "object",
          keys |-> {s[i] : i \in 2..(Len(s) - 1)} \ {","},
          chars |-> <<>>]
    ELSE [type |-> "string",
          keys |-> {},
          chars |-> SubSeq(s, 2, Len(s) - 1)]

\* The JSON bodies of the error responses: { error } and { error, details }.
ErrorOnly(msg) == [error |-> msg]

ErrorBody(msg, details) == [error |-> msg, details |-> details]

\* res.status(s).json(b)
Response(status, body) == [status |-> status, body |-> body]

\* e?.message || 'Bad request'
BadRequestMessage(message) == IF message = "" THEN "Bad request" ELSE message

\* parseForm: the promise's outcome for a body.
parseFormNoFileCheck(upload) ==
    IF upload = "malformed" THEN [ok |-> FALSE, message |-> "parse error"]
    ELSE IF upload = "malformedNoMsg" THEN [ok |-> FALSE, message |-> ""]
    ELSE [ok |-> TRUE, message |-> ""]

parseForm(upload) ==
    IF upload = "malformed" THEN [ok |-> FALSE, message |-> "parse error"]
    ELSE IF upload = "malformedNoMsg" THEN [ok |-> FALSE, message |-> ""]
    ELSE IF upload # "image" THEN [ok |-> FALSE, message |-> "image missing"]
    ELSE [ok |-> TRUE, message |-> ""]

\* The response the 'close' callback sends.
CloseResponseDetailsOut(code, o, e) ==
    IF code # 0
    THEN Response(500, ErrorBody("Python failed", o))
    ELSE IF JSONValid(o)
         THEN Response(200, JSONParse(o))
         ELSE Response(500, ErrorBody("Invalid JSON from Python", o))

CloseResponseDropsKeys(code, o, e) ==
    IF code # 0
    THEN Response(500, ErrorBody("Python failed", e))
    ELSE IF JSONValid(o)
         THEN Response(200, [JSONParse(o) EXCEPT !.keys = @ \ {"a"}])
         ELSE Response(500, ErrorBody("Invalid JSON from Python", o))

CloseResponseDetailsErr(code, o, e) ==
    IF code # 0
    THEN Response(500, ErrorBody("Python failed", e))
    ELSE IF JSONValid(o)
         THEN Response(200, JSONParse(o))
         ELSE Response(500, ErrorBody("Invalid JSON from Python", e))

CloseResponse(code, o, e) ==
    IF code # 0
    THEN Response(500, ErrorBody("Python failed", e))
    ELSE IF JSONValid(o)
         THEN Response(200, JSONParse(o))
         ELSE Response(500, ErrorBody("Invalid JSON from Python", o))

\* 'close' is emitted once the process has ended and its stdio streams are
\* closed, so every byte written has been delivered to a 'data' listener.
StdioDrainedOnExit(j) == TRUE

StdioDrained(j) == childOut[j] = <<>> /\ childErr[j] = <<>>

ServerInit ==
    /\ pc = [j \in Jobs |-> "idle"]
    /\ reqMethod = [j \in Jobs |-> "POST"]
    /\ reqUpload = [j \in Jobs |-> "image"]
    /\ filepath = [j \in Jobs |-> 0]
    /\ tmpFiles = {}
    /\ nextPath = 1
    /\ spawns = [j \in Jobs |-> 0]
    /\ childState = [j \in Jobs |-> "none"]
    /\ childOut = [j \in Jobs |-> <<>>]
    /\ childErr = [j \in Jobs |-> <<>>]
    /\ childCode = [j \in Jobs |-> 0]
    /\ sentOut = [j \in Jobs |-> <<>>]
    /\ sentErr = [j \in Jobs |-> <<>>]
    /\ out = [j \in Jobs |-> <<>>]
    /\ err = [j \in Jobs |-> <<>>]
    /\ responses = [j \in Jobs |-> <<>>]
    /\ crashed = FALSE

\* handler, up to the await of parseForm, for a request j of method m whose
\* body holds u.
ReceiveNoMethodCheck(j, m, u) ==
    /\ ~crashed
    /\ pc[j] = "idle"
    /\ reqMethod' = [reqMethod EXCEPT ![j] = m]
    /\ reqUpload' = [reqUpload EXCEPT ![j] = u]
    /\ pc' = [pc EXCEPT ![j] = "parsing"]
    /\ UNCHANGED responses
    /\ UNCHANGED clientVars
    /\ UNCHANGED <<filepath, tmpFiles, nextPath, spawns, childState, childOut,
                   childErr, childCode, sentOut, sentErr, out, err, crashed>>

ReceiveNoReturn(j, m, u) ==
    /\ ~crashed
    /\ pc[j] = "idle"
    /\ reqMethod' = [reqMethod EXCEPT ![j] = m]
    /\ reqUpload' = [reqUpload EXCEPT ![j] = u]
    /\ responses' = IF m # "POST"
                    THEN [responses EXCEPT ![j] =
                        Append(@, Response(405, ErrorOnly("Method not allowed")))]
                    ELSE responses
    /\ pc' = [pc EXCEPT ![j] = "parsing"]
    /\ UNCHANGED clientVars
    /\ UNCHANGED <<filepath, tmpFiles, nextPath, spawns, childState, childOut,
                   childErr, childCode, sentOut, sentErr, out, err, crashed>>

\* handler, up to the await of parseForm: the method check, then parseForm
\* starts consuming the body.
Receive(j, m, u) ==
    /\ ~crashed
    /\ pc[j] = "idle"
    /\ reqMethod' = [reqMethod EXCEPT ![j] = m]
    /\ reqUpload' = [reqUpload EXCEPT ![j] = u]
    /\ IF m # "POST"
       THEN /\ responses' = [responses EXCEPT ![j] =
                   Append(@, Response(405, ErrorOnly("Method not allowed")))]
            /\ pc' = [pc EXCEPT ![j] = "finished"]
       ELSE /\ pc' = [pc EXCEPT ![j] = "parsing"]
            /\ UNCHANGED responses
    /\ UNCHANGED clientVars
    /\ UNCHANGED <<filepath, tmpFiles, nextPath, spawns, childState, childOut,
                   childErr, childCode, sentOut, sentErr, out, err, crashed>>

\* form.parse's callback rejects, and the handler's catch answers 400.
ParseRejected(j) ==
    /\ ~crashed
    /\ pc[j] = "parsing"
    /\ ~parseForm(reqUpload[j]).ok
    /\ responses' = [responses EXCEPT ![j] =
           Append(@, Response(400,
               ErrorOnly(BadRequestMessage(parseForm(reqUpload[j]).message))))]
    /\ pc' = [pc EXCEPT ![j] = "finished"]
    /\ UNCHANGED clientVars
    /\ UNCHANGED <<reqMethod, reqUpload, filepath, tmpFiles, nextPath, spawns,
                   childState, childOut, childErr, childCode, sentOut, sentErr,
                   out, err, crashed>>

\* spawn('python3', [script, filepath], { env }): one more child process of
\* the request. The child either starts (and will write o and e and exit with
\* code c) or cannot be started.
spawnAgain(j, started, o, e, c) ==
    /\ spawns' = [spawns EXCEPT ![j] = @ + 2]
    /\ childState' = [childState EXCEPT ![j] =
           IF started THEN "running" ELSE "failed"]
    /\ childOut' = [childOut EXCEPT ![j] = IF started THEN o ELSE <<>>]
    /\ childErr' = [childErr EXCEPT ![j] = IF started THEN e ELSE <<>>]
    /\ childCode' = [childCode EXCEPT ![j] = IF started THEN c ELSE Null]

spawn(j, started, o, e, c) ==
    /\ spawns' = [spawns EXCEPT ![j] = @ + 1]
    /\ childState' = [childState EXCEPT ![j] =
           IF started THEN "running" ELSE "failed"]
    /\ childOut' = [childOut EXCEPT ![j] = IF started THEN o ELSE <<>>]
    /\ childErr' = [childErr EXCEPT ![j] = IF started THEN e ELSE <<>>]
    /\ childCode' = [childCode EXCEPT ![j] = IF started THEN c ELSE Null]

\* form.parse's callback resolves with the file formidable wrote; the handler
\* spawns the engine on it and attaches the data and close listeners.
ParseResolved(j, started, o, e, c) ==
    /\ ~crashed
    /\ pc[j] = "parsing"
    /\ parseForm(reqUpload[j]).ok
    /\ filepath' = [filepath EXCEPT ![j] =
           IF reqUpload[j] = "image" THEN nextPath ELSE 0]
    /\ tmpFiles' = IF reqUpload[j] = "image" THEN tmpFiles \cup {nextPath}
                   ELSE tmpFiles
    /\ nextPath' = IF reqUpload[j] = "image" THEN nextPath + 1 ELSE nextPath
    /\ spawn(j, started, o, e, c)
    /\ out' = [out EXCEPT ![j] = <<>>]
    /\ err' = [err EXCEPT ![j] = <<>>]
    /\ pc' = [pc EXCEPT ![j] = "collecting"]
    /\ UNCHANGED clientVars
    /\ UNCHANGED <<reqMethod, reqUpload, sentOut, sentErr, responses, crashed>>

\* The stdout 'data' listener of request j, for a chunk of n bytes.
StdoutDataShared(j, n) ==
    /\ ~crashed
    /\ pc[j] = "collecting"
    /\ childState[j] = "running"
    /\ n \in 1..Len(childOut[j])
    /\ out' = [k \in Jobs |-> out[k] \o toString(SubSeq(childOut[j], 1, n))]
    /\ sentOut' = [sentOut EXCEPT ![j] = Append(@, SubSeq(childOut[j], 1, n))]
    /\ childOut' = [childOut EXCEPT ![j] = SubSeq(@, n + 1, Len(@))]
    /\ UNCHANGED clientVars
    /\ UNCHANGED <<pc, reqMethod, reqUpload, filepath, tmpFiles, nextPath,
                   spawns, childState, childErr, childCode, sentErr, err,
                   responses, crashed>>

\* py.stdout.on('data', (d) => (out += d.toString()))
StdoutData(j, n) ==
    /\ ~crashed
    /\ pc[j] = "collecting"
    /\ childState[j] = "running"
    /\ n \in 1..Len(childOut[j])
    /\ out' = [out EXCEPT ![j] = @ \o toString(SubSeq(childOut[j], 1, n))]
    /\ sentOut' = [sentOut EXCEPT ![j] = Append(@, SubSeq(childOut[j], 1, n))]
    /\ childOut' = [childOut EXCEPT ![j] = SubSeq(@, n + 1, Len(@))]
    /\ UNCHANGED clientVars
    /\ UNCHANGED <<pc, reqMethod, reqUpload, filepath, tmpFiles, nextPath,
                   spawns, childState, childErr, childCode, sentErr, err,
                   responses, crashed>>

\* py.stderr.on('data', (d) => (err += d.toString()))
StderrData(j, n) ==
    /\ ~crashed
    /\ pc[j] = "collecting"
    /\ childState[j] = "running"
    /\ n \in 1..Len(childErr[j])
    /\ err' = [err EXCEPT ![j] = @ \o toString(SubSeq(childErr[j], 1, n))]
    /\ sentErr' = [sentErr EXCEPT ![j] = Append(@, SubSeq(childErr[j], 1, n))]
    /\ childErr' = [childErr EXCEPT ![j] = SubSeq(@, n + 1, Len(@))]
    /\ UNCHANGED clientVars
    /\ UNCHANGED <<pc, reqMethod, reqUpload, filepath, tmpFiles, nextPath,
                   spawns, childState, childOut, childCode, sentOut, out,
                   responses, crashed>>

\* py.on('close', (code) => ...)
Close(j) ==
    /\ ~crashed
    /\ pc[j] = "collecting"
    /\ childState[j] = "running"
    /\ StdioDrained(j)
    /\ responses' = [responses EXCEPT ![j] =
           Append(@, CloseResponse(childCode[j], out[j], err[j]))]
    /\ childState' = [childState EXCEPT ![j] = "closed"]
    /\ pc' = [pc EXCEPT ![j] = "finished"]
    /\ UNCHANGED clientVars
    /\ UNCHANGED <<reqMethod, reqUpload, filepath, tmpFiles, nextPath, spawns,
                   childOut, childErr, childCode, sentOut, sentErr, out, err,
                   crashed>>

\* The child could not be started: it emits 'error'. The handler attached no
\* 'error' listener, so the emit throws outside any try block.
SpawnError(j) ==
    /\ ~crashed
    /\ pc[j] = "collecting"
    /\ childState[j] = "failed"
    /\ crashed' = TRUE
    /\ UNCHANGED clientVars
    /\ UNCHANGED <<pc, reqMethod, reqUpload, filepath, tmpFiles, nextPath,
                   spawns, childState, childOut, childErr, childCode, sentOut,
                   sentErr, out, err, responses>>

\* The steps of request j, its engine's outputs drawn from outs and errs.
JobNext(j, outs, errs) ==
    \/ \E m \in Methods, u \in Uploads : Receive(j, m, u)
    \/ ParseRejected(j)
    \/ \E started \in BOOLEAN, o \in outs, e \in errs, c \in ExitCodes :
          ParseResolved(j, started, o, e, c)
    \/ \E n \in 1..MaxChunk : StdoutData(j, n)
    \/ \E n \in 1..MaxChunk : StderrData(j, n)
    \/ Close(j)
    \/ SpawnError(j)

\* ------------------------------------------------------------ capture client
NoImage == <<>>

NoError == "null"

\* e.message of the errors the browser raises; "" for one without message.
Messages == {"NotAllowedError", ""}

\* res.status of the answers fetch resolves with.
Statuses == {200, 400, 405, 500}

\* The values res.json() resolves with.
Datas == { JSONParse(<<"{", "}">>), JSONParse(<<"{", "r", "}">>),
           JSONParse(<<"{", "a", "}">>), JSONParse(<<"q", "x", "q">>) }

\* e?.message || fallback
MessageOr(message, fallback) == IF message = "" THEN fallback ELSE message

\* res.ok
Ok(status) == status >= 200 /\ status <= 299

\* `Server error: ${res.status}`
ServerError(status) ==
    CASE status = 400 -> "Server error: 400"
      [] status = 405 -> "Server error: 405"
      [] status = 500 -> "Server error: 500"
      [] OTHER -> "Server error"

\* `data:image/jpeg;base64,${data.reconstructed_base64}`
DataUrl(data) == <<"data:image/jpeg;base64,", "Zm9v">>

\* data?.reconstructed_base64 is truthy
HasReconstruction(data) == data.type = "object" /\ "r" \in data.keys

\* The attempts whose request has been sent and has not resolved yet.
InFlight == {a \in 1..Len(attempts) : attempts[a].pc \in {"fetch", "json"}}

\* The startCamera calls that have not returned yet.
Starting == {c \in 1..Len(starts) : starts[c].pc # "done"}

LiveStreams == {s \in 1..Len(tracks) : tracks[s] = "live"}

ClientInit ==
    /\ mounted = TRUE
    /\ videoRef = TRUE
    /\ canvasRef = TRUE
    /\ srcObject = 0
    /\ tracks = <<>>
    /\ streaming = FALSE
    /\ busy = FALSE
    /\ resultImg = NoImage
    /\ error = NoError
    /\ starts = <<>>
    /\ attempts = <<>>
    /\ resultOf = 0
    /\ errorOf = 0
    /\ latest = 0

\* The Start Camera button (disabled={streaming}): startCamera up to the
\* await of getUserMedia.
StartCameraClick ==
    /\ mounted
    /\ ~streaming
    /\ Len(starts) < MaxStarts
    /\ error' = NoError
    /\ starts' = Append(starts, [pc |-> "getUserMedia"])
    /\ errorOf' = 0
    /\ UNCHANGED <<resultOf, latest>>
    /\ UNCHANGED serverVars
    /\ UNCHANGED <<mounted, videoRef, canvasRef, srcObject, tracks, streaming,
                   busy, resultImg, attempts>>

\* getUserMedia resolves with a new stream: startCamera up to the await of
\* play(), or to its end when videoRef.current is null.
GetUserMediaResolved(c) ==
    /\ c \in 1..Len(starts)
    /\ starts[c].pc = "getUserMedia"
    /\ tracks' = Append(tracks, "live")
    /\ IF videoRef
       THEN /\ srcObject' = Len(tracks) + 1
            /\ starts' = [starts EXCEPT ![c].pc = "play"]
       ELSE /\ srcObject' = srcObject
            /\ starts' = [starts EXCEPT ![c].pc = "done"]
    /\ UNCHANGED <<resultOf, errorOf, latest>>
    /\ UNCHANGED serverVars
    /\ UNCHANGED <<mounted, videoRef, canvasRef, streaming, busy, resultImg,
                   error, attempts>>

\* getUserMedia rejects: the catch of startCamera.
GetUserMediaRejected(c, message) ==
    /\ c \in 1..Len(starts)
    /\ starts[c].pc = "getUserMedia"
    /\ error' = MessageOr(message, "Failed to access camera")
    /\ starts' = [starts EXCEPT ![c].pc = "done"]
    /\ errorOf' = 0
    /\ UNCHANGED <<resultOf, latest>>
    /\ UNCHANGED serverVars
    /\ UNCHANGED <<mounted, videoRef, canvasRef, srcObject, tracks, streaming,
                   busy, resultImg, attempts>>

\* play() resolves: setStreaming(true).
PlayResolved(c) ==
    /\ c \in 1..Len(starts)
    /\ starts[c].pc = "play"
    /\ streaming' = TRUE
    /\ starts' = [starts EXCEPT ![c].pc = "done"]
    /\ UNCHANGED <<resultOf, errorOf, latest>>
    /\ UNCHANGED serverVars
    /\ UNCHANGED <<mounted, videoRef, canvasRef, srcObject, tracks, busy,
                   resultImg, error, attempts>>

\* play() rejects: the catch of startCamera.
PlayRejected(c, message) ==
    /\ c \in 1..Len(starts)
    /\ starts[c].pc = "play"
    /\ error' = MessageOr(message, "Failed to access camera")
    /\ starts' = [starts EXCEPT ![c].pc = "done"]
    /\ errorOf' = 0
    /\ UNCHANGED <<resultOf, latest>>
    /\ UNCHANGED serverVars
    /\ UNCHANGED <<mounted, videoRef, canvasRef, srcObject, tracks, streaming,
                   busy, resultImg, attempts>>

\* The component unmounts: React detaches the refs and runs the effect's
\* cleanup, in an order that depends on the React version (refDetached: the
\* ref is already null when the cleanup reads it). The cleanup stops the
\* tracks of videoRef.current.srcObject when both are set.
Unmount(refDetached) ==
    /\ mounted
    /\ mounted' = FALSE
    /\ videoRef' = FALSE
    /\ canvasRef' = FALSE
    /\ tracks' = IF ~refDetached /\ videoRef /\ srcObject # 0
                 THEN [tracks EXCEPT ![srcObject] = "ended"]
                 ELSE tracks
    /\ UNCHANGED <<resultOf, errorOf, latest>>
    /\ UNCHANGED serverVars
    /\ UNCHANGED <<srcObject, streaming, busy, resultImg, error, starts,
                   attempts>>

\* analyze(blob) up to the await of fetch, for a new attempt from `source`.
analyze(source) ==
    /\ busy' = TRUE
    /\ error' = NoError
    /\ resultImg' = NoImage
    /\ attempts' = Append(attempts, [pc |-> "fetch", source |-> source])
    /\ resultOf' = 0
    /\ errorOf' = 0
    /\ latest' = Len(attempts) + 1

\* disabled={!streaming || busy} of the Capture & Analyze button.
CaptureDisabledBusyOnly == busy

CaptureDisabled == ~streaming \/ busy

\* The Capture & Analyze button (disabled={!streaming || busy}):
\* captureAndAnalyze up to the toBlob call of snapshotBlob, or to its catch
\* when snapshotBlob rejects at once ('No video', 'No ctx').
CaptureClick(ctx) ==
    /\ mounted
    /\ ~CaptureDisabled
    /\ Len(attempts) < MaxAttempts
    /\ IF ~videoRef \/ ~canvasRef \/ ~ctx
       THEN /\ error' = "Capture failed"
            /\ attempts' = Append(attempts,
                   [pc |-> "failed", source |-> "capture"])
       ELSE /\ error' = error
            /\ attempts' = Append(attempts,
                   [pc |-> "toBlob", source |-> "capture"])
    /\ errorOf' = IF ~videoRef \/ ~canvasRef \/ ~ctx
                  THEN Len(attempts) + 1 ELSE errorOf
    /\ UNCHANGED <<resultOf, latest>>
    /\ UNCHANGED serverVars
    /\ UNCHANGED <<mounted, videoRef, canvasRef, srcObject, tracks, streaming,
                   busy, resultImg, starts>>

\* toBlob's callback for capture a, with or without a blob.
ToBlobCallbackBusyFirst(a, blob) ==
    /\ a \in 1..Len(attempts)
    /\ attempts[a].pc = "toBlob"
    /\ busy' = TRUE
    /\ IF ~blob
       THEN /\ error' = "Capture failed"
            /\ attempts' = [attempts EXCEPT ![a].pc = "failed"]
            /\ UNCHANGED resultImg
       ELSE /\ error' = NoError
            /\ resultImg' = NoImage
            /\ attempts' = [attempts EXCEPT ![a].pc = "fetch"]
    /\ IF ~blob
       THEN errorOf' = a /\ UNCHANGED <<resultOf, latest>>
       ELSE resultOf' = 0 /\ errorOf' = 0 /\ latest' = a
    /\ UNCHANGED serverVars
    /\ UNCHANGED <<mounted, videoRef, canvasRef, srcObject, tracks, streaming,
                   starts>>

\* toBlob's callback: without a blob snapshotBlob rejects ('No blob') and
\* captureAndAnalyze catches; with one, analyze(blob) runs up to its fetch.
ToBlobCallback(a, blob) ==
    /\ a \in 1..Len(attempts)
    /\ attempts[a].pc = "toBlob"
    /\ IF ~blob
       THEN /\ error' = "Capture failed"
            /\ attempts' = [attempts EXCEPT ![a].pc = "failed"]
            /\ UNCHANGED <<busy, resultImg>>
       ELSE /\ busy' = TRUE
            /\ error' = NoError
            /\ resultImg' = NoImage
            /\ attempts' = [attempts EXCEPT ![a].pc = "fetch"]
    /\ IF ~blob
       THEN errorOf' = a /\ UNCHANGED <<resultOf, latest>>
       ELSE resultOf' = 0 /\ errorOf' = 0 /\ latest' = a
    /\ UNCHANGED serverVars
    /\ UNCHANGED <<mounted, videoRef, canvasRef, srcObject, tracks, streaming,
                   starts>>

\* The file input (never disabled): onFileInput returns when no file was
\* chosen, and runs analyze(f) up to its fetch otherwise.
FileInput(file) ==
    /\ mounted
    /\ Len(attempts) < MaxAttempts
    /\ IF ~file
       THEN UNCHANGED <<busy, error, resultImg, attempts, resultOf, errorOf,
                        latest>>
       ELSE analyze("file")
    /\ UNCHANGED serverVars
    /\ UNCHANGED <<mounted, videoRef, canvasRef, srcObject, tracks, streaming,
                   starts>>

\* fetch resolves: a status that is not ok throws, is caught, and the finally
\* clears busy; an ok status goes on to the await of res.json().
FetchResolved(a, status) ==
    /\ a \in 1..Len(attempts)
    /\ attempts[a].pc = "fetch"
    /\ IF ~Ok(status)
       THEN /\ error' = ServerError(status)
            /\ busy' = FALSE
            /\ attempts' = [attempts EXCEPT ![a].pc = "error"]
       ELSE /\ attempts' = [attempts EXCEPT ![a].pc = "json"]
            /\ UNCHANGED <<error, busy>>
    /\ errorOf' = IF ~Ok(status) THEN a ELSE errorOf
    /\ UNCHANGED <<resultOf, latest>>
    /\ UNCHANGED serverVars
    /\ UNCHANGED <<mounted, videoRef, canvasRef, srcObject, tracks, streaming,
                   resultImg, starts>>

\* The fetch of attempt a rejects with an error of this message.
FetchRejectedNoFinally(a, message) ==
    /\ a \in 1..Len(attempts)
    /\ attempts[a].pc = "fetch"
    /\ error' = MessageOr(message, "Failed to analyze")
    /\ busy' = busy
    /\ attempts' = [attempts EXCEPT ![a].pc = "error"]
    /\ errorOf' = a
    /\ UNCHANGED <<resultOf, latest>>
    /\ UNCHANGED serverVars
    /\ UNCHANGED <<mounted, videoRef, canvasRef, srcObject, tracks, streaming,
                   resultImg, starts>>

\* fetch rejects (network failure): catch, then finally.
FetchRejected(a, message) ==
    /\ a \in 1..Len(attempts)
    /\ attempts[a].pc = "fetch"
    /\ error' = MessageOr(message, "Failed to analyze")
    /\ busy' = FALSE
    /\ attempts' = [attempts EXCEPT ![a].pc = "error"]
    /\ errorOf' = a
    /\ UNCHANGED <<resultOf, latest>>
    /\ UNCHANGED serverVars
    /\ UNCHANGED <<mounted, videoRef, canvasRef, srcObject, tracks, streaming,
                   resultImg, starts>>

\* res.json() resolves with data: the rest of the try, then finally.
JsonResolved(a, data) ==
    /\ a \in 1..Len(attempts)
    /\ attempts[a].pc = "json"
    /\ resultImg' = IF HasReconstruction(data) THEN DataUrl(data) ELSE resultImg
    /\ busy' = FALSE
    /\ attempts' = [attempts EXCEPT ![a].pc = "done"]
    /\ resultOf' = IF HasReconstruction(data) THEN a ELSE resultOf
    /\ UNCHANGED <<errorOf, latest>>
    /\ UNCHANGED serverVars
    /\ UNCHANGED <<mounted, videoRef, canvasRef, srcObject, tracks, streaming,
                   error, starts>>

\* res.json() rejects (the body is not JSON): catch, then finally.
JsonRejected(a, message) ==
    /\ a \in 1..Len(attempts)
    /\ attempts[a].pc = "json"
    /\ error' = MessageOr(message, "Failed to analyze")
    /\ busy' = FALSE
    /\ attempts' = [attempts EXCEPT ![a].pc = "error"]
    /\ errorOf' = a
    /\ UNCHANGED <<resultOf, latest>>
    /\ UNCHANGED serverVars
    /\ UNCHANGED <<mounted, videoRef, canvasRef, srcObject, tracks, streaming,
                   resultImg, starts>>

ClientNext ==
    \/ StartCameraClick
    \/ \E c \in 1..MaxStarts : GetUserMediaResolved(c)
    \/ \E c \in 1..MaxStarts, m \in Messages : GetUserMediaRejected(c, m)
    \/ \E c \in 1..MaxStarts : PlayResolved(c)
    \/ \E c \in 1..MaxStarts, m \in Messages : PlayRejected(c, m)
    \/ \E refDetached \in BOOLEAN : Unmount(refDetached)
    \/ \E ctx \in BOOLEAN : CaptureClick(ctx)
    \/ \E a \in 1..MaxAttempts, blob \in BOOLEAN : ToBlobCallback(a, blob)
    \/ \E file \in BOOLEAN : FileInput(file)
    \/ \E a \in 1..MaxAttempts, st \in Statuses : FetchResolved(a, st)
    \/ \E a \in 1..MaxAttempts, m \in Messages : FetchRejected(a, m)
    \/ \E a \in 1..MaxAttempts, d \in Datas : JsonResolved(a, d)
    \/ \E a \in 1..MaxAttempts, m \in Messages : JsonRejected(a, m)

\* ---------------------------------------------------------- specifications
vars == <<serverVars, clientVars>>

Init == ServerInit /\ ClientInit

\* One request, with every engine output of the samples.
NextJob == JobNext(1, StdoutSamples, StderrSamples)

SpecJob == Init /\ [][NextJob]_vars

\* NumJobs requests handled concurrently.
NextServer == \E j \in Jobs : JobNext(j, ConcurrentStdout, ConcurrentStderr)

SpecServer == Init /\ [][NextServer]_vars

\* One capture session.
NextClient == ClientNext

SpecClient == Init /\ [][NextClient]_vars

\* ------------------------------------------------------------------ claims
\* The requests whose upload was parsed and written to a temporary file.
Parsed == {j \in Jobs : filepath[j] # 0}

\* The requests whose child process has closed.
Closed == {j \in Jobs : childState[j] = "closed"}

\* C1: once a parsed request has been answered, its temporary file is gone.
C1_TempFileDeletedOnceAnswered ==
    \A j \in Parsed : responses[j] # <<>> => filepath[j] \notin tmpFiles

\* C2: at most one analysis request of the session is in flight.
C2_AtMostOneRequestInFlight == Cardinality(InFlight) <= 1

\* C3: no failure ends the orchestrating process: the process never dies of
\* an unhandled fault, whatever fails while it handles a request.
C3_NoUnhandledFault == ~crashed

\* C4: once the session is torn down and no startCamera call is pending,
\* every stream the session acquired has its tracks stopped.
C4_StreamsStoppedAfterTeardown ==
    (~mounted /\ Starting = {}) => LiveStreams = {}

\* C5: the session holds at most one live camera stream.
C5_AtMostOneLiveStream == Cardinality(LiveStreams) <= 1

\* C6: a request has exactly one engine subprocess spawned for it from the
\* moment its upload is parsed, and none before that or without a parsed
\* upload.
C6_ExactlyOneSpawnPerParsedUpload ==
    \A j \in Jobs :
        spawns[j] = IF pc[j] \in {"collecting", "finished"} /\ j \in Parsed
                    THEN 1 ELSE 0

C6_Witness ==
    \E j \in Parsed : pc[j] = "finished" /\ j \in Closed /\ spawns[j] = 1

\* C7: a child that closed with a code other than 0 is answered by exactly
\* 500 { error: 'Python failed', details }, details being the text accumulated
\* from all of the child's stderr chunks, none of them left unread; stdout has
\* no part in it.
C7_NonZeroExitAnswers500WithStderr ==
    \A j \in Closed :
        childCode[j] # 0 =>
            /\ childErr[j] = <<>>
            /\ err[j] = Accumulate(sentErr[j])
            /\ responses[j] =
                   << [status |-> 500,
                       body |-> [error |-> "Python failed",
                                 details |-> Accumulate(sentErr[j])]] >>

C7_Witness ==
    \E j \in Closed :
        /\ childCode[j] = 1
        /\ Len(sentErr[j]) = 2
        /\ out[j] # <<>>
        /\ out[j] # err[j]
        /\ responses[j][1].status = 500

\* C8: a child that closed with code 0 and an accumulated stdout that is valid
\* JSON is answered by exactly 200 with the parsed value as the body: the
\* members of the text are the keys of the body, with or without
\* reconstructed_base64 (r).
C8_ZeroExitValidJsonAnswers200 ==
    \A j \in Closed :
        (childCode[j] = 0 /\ JSONValid(out[j])) =>
            /\ out[j] = Accumulate(sentOut[j])
            /\ Len(responses[j]) = 1
            /\ responses[j][1].status = 200
            /\ responses[j][1].body = JSONParse(out[j])
            /\ out[j] = <<"{", "}">> =>
                   responses[j][1].body.keys = {}
            /\ out[j] = <<"{", "r", "}">> =>
                   responses[j][1].body.keys = {"r"}
            /\ out[j] = <<"{", "a", "}">> =>
                   responses[j][1].body.keys = {"a"}

C8_Witness ==
    \E j \in Closed :
        /\ childCode[j] = 0
        /\ out[j] = <<"{", "a", "}">>
        /\ Len(sentOut[j]) = 2
        /\ responses[j][1].status = 200
        /\ "r" \notin responses[j][1].body.keys

\* C9: a child that closed with code 0 and an accumulated stdout that is not
\* valid JSON is answered by exactly 500 { error: 'Invalid JSON from Python',
\* details }, details being the accumulated stdout.
C9_ZeroExitInvalidJsonAnswers500 ==
    \A j \in Closed :
        (childCode[j] = 0 /\ ~JSONValid(out[j])) =>
            /\ childOut[j] = <<>>
            /\ out[j] = Accumulate(sentOut[j])
            /\ responses[j] =
                   << [status |-> 500,
                       body |-> [error |-> "Invalid JSON from Python",
                                 details |-> Accumulate(sentOut[j])]] >>

C9_Witness ==
    \E j \in Closed :
        /\ childCode[j] = 0
        /\ out[j] = <<"{", "r">>
        /\ err[j] # <<>>
        /\ responses[j][1].status = 500

\* The POST requests received whose body has no image field.
MissingImage ==
    {j \in Jobs : pc[j] # "idle" /\ reqMethod[j] = "POST"
                    /\ reqUpload[j] = "noimage"}

\* C10: a POST request without an image field never has a subprocess, and
\* its answer is exactly 400 { error: 'image missing' }.
C10_MissingImageAnswers400NoSpawn ==
    \A j \in MissingImage :
        /\ spawns[j] = 0
        /\ childState[j] = "none"
        /\ pc[j] \in {"parsing", "finished"}
        /\ pc[j] = "parsing" => responses[j] = <<>>
        /\ pc[j] = "finished" =>
               responses[j] = << [status |-> 400,
                                  body |-> [error |-> "image missing"]] >>

C10_Witness ==
    \E j \in MissingImage :
        pc[j] = "finished" /\ responses[j][1].status = 400

\* The requests received whose method is not POST.
NotPost == {j \in Jobs : pc[j] # "idle" /\ reqMethod[j] # "POST"}

\* C11: a request whose method is not POST is answered at once by exactly
\* 405 { error: 'Method not allowed' }: its body is never parsed, no temporary
\* file is written for it and no subprocess is spawned for it.
C11_NotPostAnswers405Unparsed ==
    \A j \in NotPost :
        /\ pc[j] = "finished"
        /\ responses[j] = << [status |-> 405,
                              body |-> [error |-> "Method not allowed"]] >>
        /\ filepath[j] = 0
        /\ spawns[j] = 0
        /\ childState[j] = "none"

C11_Witness ==
    \E j \in NotPost :
        /\ reqUpload[j] = "image"
        /\ responses[j][1].status = 405
        /\ tmpFiles = {}

\* C13: a parsed request is answered only once its child has closed: the exit
\* code is known and every stdout and stderr byte the child wrote has been
\* appended to out and err.
C13_AnsweredOnlyAfterChildClosed ==
    \A j \in Parsed :
        responses[j] # <<>> =>
            /\ childState[j] = "closed"
            /\ childCode[j] \in ExitCodes
            /\ childOut[j] = <<>>
            /\ childErr[j] = <<>>
            /\ out[j] = Accumulate(sentOut[j])
            /\ err[j] = Accumulate(sentErr[j])

C13_Witness ==
    \E j \in Parsed :
        /\ responses[j] # <<>>
        /\ Len(sentOut[j]) >= 2
        /\ Len(sentErr[j]) >= 2

\* C18: concurrent requests share nothing: parsed requests have different
\* temporary files, the buffers of a request hold the chunks of its own child
\* alone, and the answer of a closed request is the one its own child's exit
\* code and chunks determine.
C18_ConcurrentJobsIsolated ==
    /\ \A i, j \in Parsed : i # j => filepath[i] # filepath[j]
    /\ \A j \in Parsed :
          pc[j] \in {"collecting", "finished"} =>
              /\ spawns[j] = 1
              /\ out[j] = Accumulate(sentOut[j])
              /\ err[j] = Accumulate(sentErr[j])
    /\ \A j \in Closed :
          /\ Len(responses[j]) = 1
          /\ responses[j][1].status =
                 IF childCode[j] = 0 /\ JSONValid(Accumulate(sentOut[j]))
                 THEN 200 ELSE 500
          /\ responses[j][1].status = 500 =>
                 responses[j][1].body.details =
                     IF childCode[j] # 0 THEN Accumulate(sentErr[j])
                     ELSE Accumulate(sentOut[j])
          /\ responses[j][1].status = 200 =>
                 responses[j][1].body = JSONParse(Accumulate(sentOut[j]))

C18_Witness ==
    \E i, j \in Closed :
        /\ i # j
        /\ filepath[i] # filepath[j]
        /\ out[i] # out[j]
        /\ responses[i][1].status = 200
        /\ responses[j][1].status = 500

\* C19: a request is answered at most once, and a request that has been
\* answered has no event left that could answer it again.
C19_AtMostOneResponse ==
    \A j \in Jobs :
        /\ Len(responses[j]) <= 1
        /\ responses[j] # <<>> => pc[j] = "finished"

C19_Witness ==
    \E i, j \in Jobs :
        /\ Len(responses[i]) = 1 /\ responses[i][1].status = 405
        /\ Len(responses[j]) = 1 /\ responses[j][1].status = 200

\* The attempts that come from the Capture & Analyze button.
Captures == {a \in 1..Len(attempts) : attempts[a].source = "capture"}

\* C12: while streaming is false the capture button is disabled and the
\* session has no capture at all, so no request of a capture is ever sent
\* from a session that is not streaming.
C12_NoCaptureUnlessStreaming ==
    ~streaming =>
        /\ CaptureDisabled
        /\ ~ENABLED (\E ctx \in BOOLEAN : CaptureClick(ctx))
        /\ Captures = {}

C12_Witness ==
    \E a \in Captures : attempts[a].pc = "fetch" /\ streaming /\ busy

\* C14: busy is true exactly when a request of the session is in flight.
C14_BusyIffInFlight == busy <=> (InFlight # {})

\* C15: once an attempt has entered analyze, a result image shown is the one
\* of the attempt that entered last, and so is an error shown that an
\* analysis set.
C15_ShownBelongsToLatestAttempt ==
    latest # 0 =>
        /\ resultImg # NoImage => resultOf = latest
        /\ (error # NoError /\ errorOf # 0 /\ attempts[errorOf].pc = "error")
               => errorOf = latest

\* C16: a step in which an analysis attempt ends in error leads to a state
\* that shows the error and no result image.
C16_FailureShowsErrorWithoutResult ==
    [][\A a \in InFlight :
          attempts'[a].pc = "error" =>
              (error' # NoError /\ resultImg' = NoImage)]_vars

\* The captures whose snapshot failed.
FailedSnapshots == {a \in Captures : attempts[a].pc = "failed"}

\* C17: the step in which a capture's snapshot fails shows 'Capture failed',
\* leaves busy as it was and sends no request; a capture whose snapshot
\* failed stays failed, so no request is ever issued for it.
C17_FailedSnapshotSendsNothing ==
    [][/\ \A a \in FailedSnapshots : attempts'[a] = attempts[a]
       /\ \A a \in 1..Len(attempts') :
             (attempts'[a].pc = "failed" /\ a \notin FailedSnapshots) =>
                 /\ error' = "Capture failed"
                 /\ busy' = busy
                 /\ InFlight' = InFlight
                 /\ latest' = latest]_vars

C17_Witness ==
    \E a \in FailedSnapshots :
        /\ a # Len(attempts)
        /\ error = "Capture failed"
        /\ ~busy
        /\ InFlight = {}

\* C20: the step in which a request of analyze settles for good leaves busy
\* false, whichever way it ends; and whenever no request is in flight busy is
\* false and the capture button is enabled if streaming.
C20_BusyClearedWhenSettled ==
    /\ [][\A a \in InFlight :
             attempts'[a].pc \in {"done", "error"} => ~busy']_vars
    /\ [](InFlight = {} => (~busy /\ (streaming => ~CaptureDisabled)))

C20_Witness ==
    \E a \in Captures :
        /\ attempts[a].pc = "error"
        /\ InFlight = {}
        /\ ~busy
        /\ ~CaptureDisabled

====
